---- MODULE Spec2Model ----
(***************************************************************************)
(* Model of the backup naming and selection logic of mining-camp's         *)
(* Prospector (src/utilities/prospector.py).                               *)
(*                                                                         *)
(* Strings are sequences of one-character strings, so that formatting,     *)
(* regular-expression matching, os.path.basename and Python's string       *)
(* ordering are computed character by character.                           *)
(***************************************************************************)
EXTENDS Integers, Sequences, FiniteSets, TLC

----------------------------------------------------------------------------
(* Characters and strings *)

\* The characters the model uses, in ASCII order (Python 2 str ordering).
Chars ==
    << " ", "-", ".", "/",
       "0", "1", "2", "3", "4", "5", "6", "7", "8", "9",
       "T", "_",
       "a", "b", "c", "e", "i", "k", "l", "m", "n", "o", "p", "s", "t",
       "u", "w", "x", "z" >>

CharSet == { Chars[i] : i \in 1..Len(Chars) }

Ord == [ c \in CharSet |-> CHOOSE i \in 1..Len(Chars) : Chars[i] = c ]

DigitChars == << "0", "1", "2", "3", "4", "5", "6", "7", "8", "9" >>

\* regex class \d
IsDigit(c) == \E i \in 1..10 : DigitChars[i] = c

\* regex class \w  ([a-zA-Z0-9_])
IsWord(c) == c \notin { " ", "-", ".", "/" }

DigitVal(c) == (CHOOSE i \in 1..10 : DigitChars[i] = c) - 1

\* Python's a < b on str: the first differing character decides, a proper
\* prefix is smaller.
StrLess(a, b) ==
    LET shorter == IF Len(a) < Len(b) THEN Len(a) ELSE Len(b)
        differ == { i \in 1..shorter : a[i] # b[i] }
    IN IF differ = { } THEN Len(a) < Len(b)
       ELSE \E i \in differ :
                /\ \A j \in differ : i <= j
                /\ Ord[a[i]] < Ord[b[i]]

\* str.startswith, which is what list_objects(Prefix=...) filters on
StartsWith(s, p) ==
    /\ Len(p) <= Len(s)
    /\ SubSeq(s, 1, Len(p)) = p

\* os.path.basename: everything after the last "/"
Basename(s) ==
    LET slashes == { i \in 1..Len(s) : s[i] = "/" }
        last == IF slashes = {} THEN 0
                ELSE CHOOSE i \in slashes : \A j \in slashes : j <= i
    IN SubSeq(s, last + 1, Len(s))

\* n written in decimal, zero-padded to `width` digits (%Y, %m, %d, %H, %M, %S)
RECURSIVE Pad(_, _)
Pad(n, width) ==
    IF width = 0 THEN << >>
    ELSE Pad(n \div 10, width - 1) \o << DigitChars[(n % 10) + 1] >>

\* value of the decimal digits s[from .. from+n-1]
RECURSIVE ParseInt(_, _, _)
ParseInt(s, from, n) ==
    IF n = 0 THEN 0
    ELSE 10 * ParseInt(s, from, n - 1) + DigitVal(s[from + n - 1])

\* \d{n} at position `from`
DigitsAt(s, from, n) ==
    /\ from + n - 1 <= Len(s)
    /\ \A i \in from..(from + n - 1) : IsDigit(s[i])

\* a literal at position `from`
LitAt(s, from, lit) ==
    /\ from + Len(lit) - 1 <= Len(s)
    /\ SubSeq(s, from, from + Len(lit) - 1) = lit

\* \w{n} at position `from`
WordsAt(s, from, n) ==
    /\ from + n - 1 <= Len(s)
    /\ \A i \in from..(from + n - 1) : IsWord(s[i])

----------------------------------------------------------------------------
(* datetime *)

Datetime(y, mo, d, h, mi, s, us) ==
    [ year |-> y, month |-> mo, day |-> d, hour |-> h, minute |-> mi,
      second |-> s, microsecond |-> us ]

DtTuple(t) ==
    << t.year, t.month, t.day, t.hour, t.minute, t.second, t.microsecond >>

\* datetime.__lt__: field by field, most significant first
DtLess(a, b) ==
    \E i \in 1..7 :
        /\ \A j \in 1..(i - 1) : DtTuple(a)[j] = DtTuple(b)[j]
        /\ DtTuple(a)[i] < DtTuple(b)[i]

IsLeap(y) == (y % 4 = 0 /\ y % 100 # 0) \/ y % 400 = 0

DaysInMonth(y, mo) ==
    IF mo = 2 THEN (IF IsLeap(y) THEN 29 ELSE 28)
    ELSE IF mo \in { 4, 6, 9, 11 } THEN 30 ELSE 31

\* What datetime.strptime raises when the digits are no date.
ValueError == [ error |-> "ValueError" ]

\* The datetime constructor's range checks, reached through strptime.
MkDatetime(y, mo, d, h, mi, s) ==
    IF /\ y >= 1
       /\ mo \in 1..12
       /\ d >= 1 /\ d <= DaysInMonth(y, mo)
       /\ h \in 0..23
       /\ mi \in 0..59
       /\ s \in 0..59
    THEN Datetime(y, mo, d, h, mi, s, 0)
    ELSE ValueError

----------------------------------------------------------------------------
(* S3 key construction and parsing *)

BackupsDir == << "b", "a", "c", "k", "u", "p", "s" >>

ZipSuffix == << "z", "i", "p" >>

\* A timestamp format with the fields in day, month, year order, against
\* which the ordering of keys is tested
StrftimeS3DayFirst(t) ==
    Pad(t.day, 2) \o Pad(t.month, 2) \o Pad(t.year, 4) \o << "T" >>
        \o Pad(t.hour, 2) \o Pad(t.minute, 2) \o Pad(t.second, 2)

\* date.strftime(S3_BACKUP_DATE_FMT), '%Y%m%dT%H%M%S': the microsecond is
\* not part of the format.
StrftimeS3(t) ==
    Pad(t.year, 4) \o Pad(t.month, 2) \o Pad(t.day, 2) \o << "T" >>
        \o Pad(t.hour, 2) \o Pad(t.minute, 2) \o Pad(t.second, 2)

\* Prospector.s3_backup_prefix
s3_backup_prefix(server_name, world_name) ==
    server_name \o << "/" >> \o BackupsDir \o << "/" >> \o world_name

\* Prospector.s3_backup_key
s3_backup_key(server_name, world_name, date) ==
    s3_backup_prefix(server_name, world_name) \o << "-" >>
        \o StrftimeS3(date) \o << "." >> \o ZipSuffix

\* Python's None where a string or a match is expected
None == << "None" >>

\* S3_BACKUP_RE.match(name), '\w+-(\d{8}T\d{6}).zip': the positions at which
\* group(1) can start. The match is anchored at the start of the name only,
\* and the "." is any character.
S3BackupReStarts(name) ==
    { p \in 3..Len(name) :
        /\ WordsAt(name, 1, p - 2)
        /\ name[p - 1] = "-"
        /\ DigitsAt(name, p, 8)
        /\ LitAt(name, p + 8, << "T" >>)
        /\ DigitsAt(name, p + 9, 6)
        /\ p + 15 <= Len(name)
        /\ LitAt(name, p + 16, ZipSuffix) }

\* group(1) of the match, or None
S3BackupReMatch(name) ==
    IF \E p \in S3BackupReStarts(name) : TRUE
    THEN LET p == CHOOSE q \in S3BackupReStarts(name) : TRUE
         IN SubSeq(name, p, p + 14)
    ELSE None

\* datetime.strptime(g, S3_BACKUP_DATE_FMT) on the 15 characters of group(1)
StrptimeS3(g) ==
    MkDatetime(ParseInt(g, 1, 4), ParseInt(g, 5, 2), ParseInt(g, 7, 2),
               ParseInt(g, 10, 2), ParseInt(g, 12, 2), ParseInt(g, 14, 2))

\* An AttributeError: result.group(1) on a match that is None.
AttributeError == [ error |-> "AttributeError" ]

\* Lines 142-144 of push_most_recent_backup: the timestamp read back out of
\* a key.
S3KeyStamp(key) ==
    LET result == S3BackupReMatch(Basename(key))
    IN IF result = None THEN AttributeError ELSE StrptimeS3(result)

IsDatetime(t) == t # ValueError /\ t # AttributeError

----------------------------------------------------------------------------
(* The clock *)

\* The wall clock after n steps of half a second, as datetime.now() and
\* datetime.fromtimestamp() give it: the clock starts half a second before
\* 2020 begins, so a few steps change every field of the timestamp.
Clock(n) ==
    LET halves == 1 + n
        secs == 86399 + (halves \div 2)
        sod == secs % 86400
        days == secs \div 86400
    IN Datetime(IF days = 0 THEN 2019 ELSE 2020,
                IF days = 0 THEN 12 ELSE 1,
                IF days = 0 THEN 31 ELSE days,
                sod \div 3600, (sod \div 60) % 60, sod % 60,
                (halves % 2) * 500000)

----------------------------------------------------------------------------
(* Key construction and parsing on their own *)

VARIABLES k_pc, k_server, k_world, k_t1, k_t2, k_key1, k_key2, k_stamp

k_vars == << k_pc, k_server, k_world, k_t1, k_t2, k_key1, k_key2, k_stamp >>

\* Last clock step the key checks draw instants from
MaxKeyTick == 4

KeyInstants == { Clock(n) : n \in 0..MaxKeyTick }

KeyServers == { << "s" >>, << "s", "-", "1" >> }

KeyWorlds ==
    { << "w" >>, << "m", "_", "w", "2" >>, << "m", "-", "w" >>,
      << "w", " ", "x" >> }

KeyIdle ==
    /\ k_pc = "idle"
    /\ k_server = None /\ k_world = None
    /\ k_t1 = ValueError /\ k_t2 = ValueError
    /\ k_key1 = None /\ k_key2 = None /\ k_stamp = ValueError

KeyInputs ==
    /\ k_pc = "init"
    /\ k_server \in KeyServers
    /\ k_world \in KeyWorlds
    /\ k_t1 \in KeyInstants
    /\ k_t2 \in KeyInstants
    /\ k_key1 = None /\ k_key2 = None /\ k_stamp = ValueError

\* p.s3_backup_key(t1), p.s3_backup_key(t2)
BuildKeys ==
    /\ k_pc = "init"
    /\ k_pc' = "built"
    /\ k_key1' = s3_backup_key(k_server, k_world, k_t1)
    /\ k_key2' = s3_backup_key(k_server, k_world, k_t2)
    /\ UNCHANGED << k_server, k_world, k_t1, k_t2, k_stamp >>

\* the timestamp of the key of t1, read back as push_most_recent_backup
\* reads it
ParseKey ==
    /\ k_pc = "built"
    /\ k_pc' = "parsed"
    /\ k_stamp' = S3KeyStamp(k_key1)
    /\ UNCHANGED << k_server, k_world, k_t1, k_t2, k_key1, k_key2 >>

----------------------------------------------------------------------------
(* Local backup file names *)

\* '(\d{4}-\d{2}-\d{2}--\d{2}-\d{2})' with '%Y-%m-%d--%H-%M', as the Aroma
\* backup mod writes it
StrftimeAroma(t) ==
    Pad(t.year, 4) \o << "-" >> \o Pad(t.month, 2) \o << "-" >>
        \o Pad(t.day, 2) \o << "-", "-" >> \o Pad(t.hour, 2) \o << "-" >>
        \o Pad(t.minute, 2)

\* '(\d{4}-\d{2}-\d{2}-\d{2}-\d{2}-\d{2})' with '%Y-%m-%d-%H-%M-%S', as FTB
\* Utilities writes it
StrftimeFtb(t) ==
    Pad(t.year, 4) \o << "-" >> \o Pad(t.month, 2) \o << "-" >>
        \o Pad(t.day, 2) \o << "-" >> \o Pad(t.hour, 2) \o << "-" >>
        \o Pad(t.minute, 2) \o << "-" >> \o Pad(t.second, 2)

AromaName(t) ==
    << "b", "-", "w", "-" >> \o StrftimeAroma(t) \o << "." >> \o ZipSuffix

FtbName(t) == StrftimeFtb(t) \o << "." >> \o ZipSuffix

\* BACKUP_FORMATS[0][0].match(f),
\* '\w+-\w+-(\d{4}-\d{2}-\d{2}--\d{2}-\d{2}).zip': the positions at which
\* group(1) can start
AromaReStarts(f) ==
    { p \in 5..Len(f) :
        /\ f[p - 1] = "-"
        /\ \E n1 \in 1..(p - 4) :
               /\ WordsAt(f, 1, n1)
               /\ f[n1 + 1] = "-"
               /\ WordsAt(f, n1 + 2, p - n1 - 3)
        /\ DigitsAt(f, p, 4)
        /\ LitAt(f, p + 4, << "-" >>)
        /\ DigitsAt(f, p + 5, 2)
        /\ LitAt(f, p + 7, << "-" >>)
        /\ DigitsAt(f, p + 8, 2)
        /\ LitAt(f, p + 10, << "-", "-" >>)
        /\ DigitsAt(f, p + 12, 2)
        /\ LitAt(f, p + 14, << "-" >>)
        /\ DigitsAt(f, p + 15, 2)
        /\ p + 17 <= Len(f)
        /\ LitAt(f, p + 18, ZipSuffix) }

\* group(1) of the match, or None
AromaReMatch(f) ==
    IF \E p \in AromaReStarts(f) : TRUE
    THEN LET p == CHOOSE q \in AromaReStarts(f) : TRUE
         IN SubSeq(f, p, p + 16)
    ELSE None

\* BACKUP_FORMATS[1][0].match(f): '(\d{4}-\d{2}-\d{2}-\d{2}-\d{2}-\d{2}).zip'
FtbReMatch(f) ==
    IF /\ DigitsAt(f, 1, 4)
       /\ LitAt(f, 5, << "-" >>)
       /\ DigitsAt(f, 6, 2)
       /\ LitAt(f, 8, << "-" >>)
       /\ DigitsAt(f, 9, 2)
       /\ LitAt(f, 11, << "-" >>)
       /\ DigitsAt(f, 12, 2)
       /\ LitAt(f, 14, << "-" >>)
       /\ DigitsAt(f, 15, 2)
       /\ LitAt(f, 17, << "-" >>)
       /\ DigitsAt(f, 18, 2)
       /\ 20 <= Len(f)
       /\ LitAt(f, 21, ZipSuffix)
    THEN SubSeq(f, 1, 19)
    ELSE None

\* datetime.strptime(g, '%Y-%m-%d--%H-%M')
StrptimeAroma(g) ==
    MkDatetime(ParseInt(g, 1, 4), ParseInt(g, 6, 2), ParseInt(g, 9, 2),
               ParseInt(g, 13, 2), ParseInt(g, 16, 2), 0)

\* datetime.strptime(g, '%Y-%m-%d-%H-%M-%S')
StrptimeFtb(g) ==
    MkDatetime(ParseInt(g, 1, 4), ParseInt(g, 6, 2), ParseInt(g, 9, 2),
               ParseInt(g, 12, 2), ParseInt(g, 15, 2), ParseInt(g, 18, 2))

\* No known format matched: `result` is None after the loop over
\* BACKUP_FORMATS.
NotABackup == [ error |-> "no match" ]

\* latest_stamp = None, latest_s3_stamp = None
NoStamp == [ error |-> "None" ]

\* a path: the directory and the file name
File(d, name) == [ dir |-> d, name |-> name ]

\* latest_path = None
NoPath == [ dir |-> None, name |-> None ]

\* Lines 116-124: the first format of BACKUP_FORMATS that matches f decides,
\* and its date format parses the group.
BackupTime(f) ==
    IF \E p \in AromaReStarts(f) : TRUE
    THEN StrptimeAroma(AromaReMatch(f))
    ELSE IF FtbReMatch(f) # None THEN StrptimeFtb(FtbReMatch(f))
    ELSE NotABackup

----------------------------------------------------------------------------
(* The configuration and the S3 bucket *)

\* Prospector.__init__: cfg['server_name'], cfg['world_name']
ServerName == << "s" >>

WorldName == << "w" >>

\* The bucket: a function from keys to [body, tags]; tags is the TagSet, a
\* set of <<Key, Value>> pairs.
NoTags == { }

BackupTag(value) == { << "backup", value >> }

\* client.upload_file(path, bucket, key): the object is replaced whole, a
\* new object carries no tags.
upload_file(b, key, body) ==
    [ k \in DOMAIN b \cup { key } |->
        IF k = key THEN [ body |-> body, tags |-> NoTags ] ELSE b[k] ]

\* Prospector.tag_s3_object(key, backup=value): put_object_tagging replaces
\* the TagSet of the object.
tag_s3_object(b, key, value) ==
    [ b EXCEPT ![key].tags = BackupTag(value) ]

\* client.list_objects(Bucket, Prefix)['Contents'], the keys only
list_objects(b, prefix) == { k \in DOMAIN b : StartsWith(k, prefix) }

\* A sort without reverse=True, against which the remote lookup is tested
SortForward(keys) ==
    [ i \in 1..Cardinality(keys) |->
        CHOOSE k \in keys :
            Cardinality({ o \in keys : StrLess(o, k) }) = i - 1 ]

\* backups.sort(reverse=True): the key at position i has i - 1 keys above it
SortReverse(keys) ==
    [ i \in 1..Cardinality(keys) |->
        CHOOSE k \in keys :
            Cardinality({ o \in keys : StrLess(k, o) }) = i - 1 ]

\* the loop of lines 194-197: the first key whose basename matches
FirstMatch(backups) ==
    LET matching == { i \in 1..Len(backups) :
                        S3BackupReMatch(Basename(backups[i])) # None }
    IN IF matching = { } THEN None
       ELSE backups[CHOOSE i \in matching : \A j \in matching : i <= j]

\* Prospector.get_most_recent_backup_key
get_most_recent_backup_key(b) ==
    FirstMatch(SortReverse(
        list_objects(b, s3_backup_prefix(ServerName, WorldName))))

----------------------------------------------------------------------------
(* The local backup directory and its scan *)

\* A directory is the sequence of directory names below local_backup_path;
\* << >> is local_backup_path itself. A file is [dir, name].
BackupRoot == << >>

OtherWorld == << "x" >>

IsUnder(d, top) ==
    /\ Len(top) <= Len(d)
    /\ SubSeq(d, 1, Len(top)) = top

\* A walk that prunes nothing, against which the exclusion of the other
\* worlds' directories is tested
PrunedNothing(dirs) == dirs

\* Lines 107-110: at the top of the walk, when a directory named world_name
\* is there, every other directory is deleted from `dirs`, so os.walk does
\* not descend into it.
Pruned(dirs) ==
    IF << WorldName >> \in dirs
    THEN { d \in dirs : IsUnder(d, << WorldName >>) }
    ELSE dirs

\* The directories os.walk(local_backup_path) visits
WalkedDirs(dirs) == { BackupRoot } \cup Pruned(dirs)

\* The files the scan of lines 103-127 looks at
WalkedFiles(dirs, files) == { f \in files : f.dir \in WalkedDirs(dirs) }

\* os.walk is top-down and depth-first: a directory's own files come before
\* those of its subdirectories, and a subtree is finished before the next
\* one starts. The order among siblings is the order of os.listdir, which is
\* arbitrary.
IsWalkOrder(order) ==
    \A i, j \in 1..Len(order) :
        /\ (j < i /\ order[i].dir # order[j].dir)
               => ~IsUnder(order[j].dir, order[i].dir)
        /\ \A m \in 1..Len(order) : \A k \in 1..Len(order[i].dir) :
               (i < m /\ m < j
                    /\ IsUnder(order[j].dir, SubSeq(order[i].dir, 1, k)))
                   => IsUnder(order[m].dir, SubSeq(order[i].dir, 1, k))

WalkOrders(dirs, files) ==
    LET seen == WalkedFiles(dirs, files)
        n == Cardinality(seen)
    IN { order \in [ 1..n -> seen ] :
            /\ \A i, j \in 1..n : i # j => order[i] # order[j]
            /\ IsWalkOrder(order) }

NoScan == [ raised |-> FALSE, path |-> NoPath, stamp |-> NoStamp ]

\* A comparison that lets a backup as late as the latest replace it, against
\* which the choice among equal timestamps is tested
ScanFileLastWins(acc, f) ==
    LET backup_time == BackupTime(f.name)
    IN IF acc.raised \/ backup_time = NotABackup THEN acc
       ELSE IF backup_time = ValueError
            THEN [ acc EXCEPT !.raised = TRUE ]
            ELSE IF acc.stamp = NoStamp \/ ~ DtLess(backup_time, acc.stamp)
                 THEN [ raised |-> FALSE, path |-> f,
                        stamp |-> backup_time ]
                 ELSE acc

\* Lines 114-127, one file: a name no format matches is passed over, a
\* strptime that raises ends the call, and a later stamp replaces the
\* latest one.
ScanFile(acc, f) ==
    LET backup_time == BackupTime(f.name)
    IN IF acc.raised \/ backup_time = NotABackup THEN acc
       ELSE IF backup_time = ValueError
            THEN [ acc EXCEPT !.raised = TRUE ]
            ELSE IF acc.stamp = NoStamp \/ DtLess(acc.stamp, backup_time)
                 THEN [ raised |-> FALSE, path |-> f,
                        stamp |-> backup_time ]
                 ELSE acc

\* Lines 101-127: the scan over the files in walk order
RECURSIVE ScanFrom(_, _)
ScanFrom(acc, order) ==
    IF order = << >> THEN acc
    ELSE ScanFrom(ScanFile(acc, Head(order)), Tail(order))

Scan(order) == ScanFrom(NoScan, order)

----------------------------------------------------------------------------
(* Archives and the world directory *)

\* A file body is a zip archive of world files, [zip |-> TRUE, files], or
\* bytes that are no zip archive. World files are [path, data] with the path
\* relative to <server_root_dir>/<server_name>/<world_name>.
ZipOf(files) == [ zip |-> TRUE, encrypted |-> FALSE, files |-> files ]

NotAZip == [ zip |-> FALSE, encrypted |-> FALSE, files |-> { } ]

\* A zip archive whose member is encrypted: ZipFile opens it, extractall
\* raises RuntimeError for want of a password, which is no BadZipfile.
EncryptedZip ==
    [ zip |-> TRUE, encrypted |-> TRUE,
      files |-> { [ path |-> << "l" >>, data |-> "e" ] } ]

\* The archives a caller hands to push_most_recent_backup in SpecWorld
ExplicitBodies == { NotAZip, EncryptedZip }

NoWorld == [ exists |-> FALSE, files |-> { } ]

WorldOf(files) == [ exists |-> TRUE, files |-> files ]

\* shutil.make_archive(tmp_path[:-4], 'zip', base_path, self.world_name):
\* the files below the world directory, and nothing else of the server
\* directory.
make_archive(w) == ZipOf(w.files)

\* An extraction that writes nothing, against which the restore is tested
extractallNothing(w, body) == w

\* z.extractall(<server_root_dir>/<server_name>): every member is written,
\* over a file of the same path if there is one; other files stay.
extractall(w, body) ==
    IF body.files = { } THEN w
    ELSE WorldOf({ e \in w.files :
                      \A n \in body.files : n.path # e.path }
                 \cup body.files)

----------------------------------------------------------------------------
(* push_most_recent_backup, from the lookup on *)

\* A comparison that also accepts a candidate as old as the remote backup,
\* against which the upload condition is tested
ShouldUploadNotOlder(zipfile, latest_s3_stamp, latest_stamp) ==
    \/ zipfile
    \/ latest_s3_stamp = NoStamp
    \/ ~ DtLess(latest_stamp, latest_s3_stamp)

\* A condition that ignores the remote backup, against which the no-op of a
\* discovered push is tested
ShouldUploadAlways(zipfile, latest_s3_stamp, latest_stamp) == TRUE

\* Line 146: `zipfile or not latest_s3_stamp or latest_stamp > latest_s3_stamp`
ShouldUpload(zipfile, latest_s3_stamp, latest_stamp) ==
    \/ zipfile
    \/ latest_s3_stamp = NoStamp
    \/ DtLess(latest_s3_stamp, latest_stamp)

\* An upload that leaves the previous backup's tag alone, against which the
\* retagging is tested
UploadNoRetag(b, body, new_s3_key, latest_s3_key) ==
    tag_s3_object(upload_file(b, new_s3_key, body), new_s3_key, "new")

\* Lines 152-158: upload, tag the upload, retag the previous most recent key
UploadAndRetag(b, body, new_s3_key, latest_s3_key) ==
    IF latest_s3_key # None
    THEN tag_s3_object(
             tag_s3_object(upload_file(b, new_s3_key, body),
                           new_s3_key, "new"),
             latest_s3_key, "old")
    ELSE tag_s3_object(upload_file(b, new_s3_key, body), new_s3_key, "new")

\* Lines 140-158, given the key the lookup of line 139 returned. Gives the
\* bucket afterwards and what the call did.
PushWith(b, zipfile, latest_stamp, body, latest_s3_key) ==
    LET latest_s3_stamp == IF latest_s3_key # None
                           THEN S3KeyStamp(latest_s3_key)
                           ELSE NoStamp
    IN IF latest_s3_stamp \in { ValueError, AttributeError }
       THEN [ bucket |-> b, raised |-> TRUE, uploaded |-> FALSE,
              latest_s3_key |-> latest_s3_key, new_s3_key |-> None ]
       ELSE IF ShouldUpload(zipfile, latest_s3_stamp, latest_stamp)
            THEN [ bucket |->
                       UploadAndRetag(b, body,
                           s3_backup_key(ServerName, WorldName, latest_stamp),
                           latest_s3_key),
                   raised |-> FALSE, uploaded |-> TRUE,
                   latest_s3_key |-> latest_s3_key,
                   new_s3_key |->
                       s3_backup_key(ServerName, WorldName, latest_stamp) ]
            ELSE [ bucket |-> b, raised |-> FALSE, uploaded |-> FALSE,
                   latest_s3_key |-> latest_s3_key, new_s3_key |-> None ]

\* Lines 139-158
PushFrom(b, zipfile, latest_stamp, body) ==
    CHOOSE r \in { PushWith(b, zipfile, latest_stamp, body, key) :
                       key \in { get_most_recent_backup_key(b) } } : TRUE

----------------------------------------------------------------------------
(* The program state *)

VARIABLES
    bucket,         \* the S3 bucket: key -> [body, tags]
    clock,          \* steps of the wall clock so far
    world,          \* the world directory of the server
    backup_dirs,    \* the directories below local_backup_path
    backup_files,   \* the files in and below local_backup_path
    tmp,            \* the names of the files in /tmp
    last,           \* what the last call of the Prospector did
    ops,            \* calls of the Prospector so far
    up_keys,        \* history: the keys uploaded so far
    up_last,        \* history: the timestamp of the last upload
    up_increasing,  \* history: each upload had a later timestamp, to the second,
                    \* than the one before
    only_current,   \* history: every push so far was a push_current_backup
                    \* that returned
    pushed_world    \* history: the world as the last push_current_backup archived it

p_vars ==
    << bucket, clock, world, backup_dirs, backup_files, tmp, last, ops,
       up_keys, up_last, up_increasing, only_current, pushed_world >>

\* Two runs of push_most_recent_backup against one bucket, each at its own
\* place in lines 139-158: what the run was given, what its lookup returned,
\* and whether any step was taken while the other run was under way. b0 is
\* the bucket the two runs started from.
VARIABLE race

\* The revision of the Prospector in src/prospector.py at work: the bucket it
\* is configured with, the buckets of the account, the files under its
\* backup directory, its calls so far and how the last one went.
VARIABLE old_rev

vars == << p_vars, k_vars, race, old_rev >>

\* Calls of the Prospector in one run of the model
MaxOps == 3

\* Last step of the wall clock
MaxTick == 2

\* The modification times of the archives callers hand over are
\* Clock(0), Clock(2), ..., Clock(2 * MaxMtime): half a second into
\* successive seconds.
MaxMtime == 2

\* Files in the local backup directory
MaxLocal == 2

\* Longest time, in clock steps, that writing the archive takes
MaxDelay == 1

\* Objects that are in the bucket without being backups of this world: a
\* key under the prefix that is no backup key, and another server's backup.
StrayKeys ==
    { s3_backup_prefix(ServerName, WorldName)
          \o << "-", "l", "a", "t", "e", "s", "t", ".", "z", "i", "p" >>,
      s3_backup_key(<< "t" >>, WorldName, Clock(2 * MaxMtime + 4)) }

\* The directories that may exist below local_backup_path
DirUniverse ==
    { << WorldName >>, << OtherWorld >>, << OtherWorld, WorldName >> }

BadDateName ==
    << "2", "0", "2", "0", "-", "1", "3", "-", "0", "1", "-",
       "0", "0", "-", "0", "0", "-", "0", "0", ".", "z", "i", "p" >>

NotesName == << "n", "o", "t", "e", "s", ".", "t", "x", "t" >>

\* The files that may be written below local_backup_path: backups of both
\* formats at the top, in the world's directory and in another world's
\* directories, a name with an impossible date and a file that is no backup.
TopFiles ==
    { File(BackupRoot, AromaName(Clock(0))),
      File(BackupRoot, FtbName(Clock(1))),
      File(BackupRoot, FtbName(Clock(3))) }

LocalFiles ==
    { File(BackupRoot, AromaName(Clock(0))),
      File(<< WorldName >>, FtbName(Clock(1))),
      File(<< WorldName >>, AromaName(Clock(1))),
      File(<< OtherWorld >>, FtbName(Clock(3))),
      File(<< OtherWorld, WorldName >>, FtbName(Clock(3))),
      File(BackupRoot, BadDateName),
      File(<< WorldName >>, NotesName) }

\* The contents the world directory takes
FirstTree ==
    { [ path |-> << "f0", "0" >>, data |-> "a" ],
      [ path |-> << "f1", "0" >>, data |-> "b" ] }

SecondTree ==
    { [ path |-> << "f0", "0" >>, data |-> "c" ],
      [ path |-> << "f2", "0" >>, data |-> "d" ] }

WorldTrees == { FirstTree, SecondTree }

\* What a backup written by a backup mod holds
ModBackup == ZipOf({ [ path |-> << "l" >>, data |-> "m" ] })

NoCall ==
    [ op |-> "none", zipfile |-> FALSE, raised |-> FALSE, had_world |-> FALSE,
      walked |-> { }, latest_path |-> NoPath, latest_stamp |-> NoStamp,
      now |-> NoStamp, latest_s3_key |-> None, new_s3_key |-> None,
      uploaded |-> FALSE ]

Procs == { 1, 2 }

NoRun ==
    [ pc |-> "idle", zipfile |-> FALSE, stamp |-> NoStamp,
      latest_s3_key |-> None ]

RaceIdle ==
    race = [ b0 |-> << >>, overlapped |-> FALSE, proc |-> [ p \in Procs |-> NoRun ] ]

\* The bucket both put_object_tagging calls of src/prospector.py name
JoshBucket == "josh-minecraft"

BucketNames == { JoshBucket, "b" }

NoOldCall ==
    [ raised |-> FALSE, uploaded |-> FALSE, latest_s3 |-> None,
      new_s3_key |-> None ]

OldIdle ==
    old_rev = [ s3_bucket |-> JoshBucket,
                store |-> [ n \in BucketNames |-> << >> ],
                files |-> { }, ops |-> 0, last |-> NoOldCall ]

ProgramIdle ==
    /\ bucket = << >>
    /\ clock = 0
    /\ world = NoWorld
    /\ backup_dirs = { }
    /\ backup_files = { }
    /\ tmp = { }
    /\ last = NoCall
    /\ ops = 0
    /\ up_keys = { }
    /\ up_last = NoStamp
    /\ up_increasing = TRUE
    /\ only_current = TRUE
    /\ pushed_world = NoWorld

\* The state after construction: nothing pushed yet, a world in place, the
\* bucket empty or holding only objects that are no backups of this world.
Init ==
    /\ \E strays \in { { }, StrayKeys } :
           bucket = [ k \in strays |-> [ body |-> NotAZip, tags |-> NoTags ] ]
    /\ clock = 0
    /\ world = WorldOf(FirstTree)
    /\ backup_dirs = { }
    /\ backup_files = { }
    /\ tmp = { }
    /\ last = NoCall
    /\ ops = 0
    /\ up_keys = { }
    /\ up_last = NoStamp
    /\ up_increasing = TRUE
    /\ only_current = TRUE
    /\ pushed_world = NoWorld
    /\ KeyIdle
    /\ RaceIdle
    /\ OldIdle

\* The timestamp as the key carries it
Seconds(t) == [ t EXCEPT !.microsecond = 0 ]

\* The history of uploads after a push that gave `r`
Uploaded(r, latest_stamp) ==
    /\ up_keys' = IF r.uploaded THEN up_keys \cup { r.new_s3_key }
                  ELSE up_keys
    /\ up_last' = IF r.uploaded THEN latest_stamp ELSE up_last
    /\ up_increasing' =
           IF r.uploaded /\ up_last # NoStamp
           THEN up_increasing /\ DtLess(Seconds(up_last), Seconds(latest_stamp))
           ELSE up_increasing

----------------------------------------------------------------------------
(* The calls of the Prospector *)

\* push_most_recent_backup(zipfile=path): the archive's modification time,
\* Clock(2 * m), names the backup.
PushExplicit(m, body) ==
    /\ ops < MaxOps
    /\ \E latest_stamp \in { Clock(2 * m) } :
       \E r \in { PushFrom(bucket, TRUE, latest_stamp, body) } :
        /\ ops' = ops + 1
        /\ bucket' = r.bucket
        /\ last' = [ op |-> "push", zipfile |-> TRUE, raised |-> r.raised,
                     had_world |-> world.exists,
                     walked |-> { }, latest_path |-> NoPath,
                     latest_stamp |-> latest_stamp, now |-> NoStamp,
                     latest_s3_key |-> r.latest_s3_key,
                     new_s3_key |-> r.new_s3_key, uploaded |-> r.uploaded ]
        /\ Uploaded(r, latest_stamp)
        /\ only_current' = FALSE
        /\ UNCHANGED << clock, world, backup_dirs, backup_files, tmp,
                        pushed_world, k_vars, race, old_rev >>

\* push_most_recent_backup(): the local backup directory is scanned for the
\* most recent backup.
PushDiscovered ==
    /\ ops < MaxOps
    /\ \E order \in WalkOrders(backup_dirs, backup_files) :
       \E found \in { Scan(order) } :
       \E r \in { IF found.raised \/ found.path = NoPath
               THEN [ bucket |-> bucket, raised |-> found.raised,
                      uploaded |-> FALSE, latest_s3_key |-> None,
                      new_s3_key |-> None ]
               ELSE PushFrom(bucket, FALSE, found.stamp, ModBackup) } :
        /\ ops' = ops + 1
        /\ bucket' = r.bucket
        /\ last' = [ op |-> "push", zipfile |-> FALSE, raised |-> r.raised,
                     had_world |-> world.exists,
                     walked |-> WalkedDirs(backup_dirs),
                     latest_path |-> found.path,
                     latest_stamp |-> found.stamp, now |-> NoStamp,
                     latest_s3_key |-> r.latest_s3_key,
                     new_s3_key |-> r.new_s3_key, uploaded |-> r.uploaded ]
        /\ Uploaded(r, found.stamp)
        /\ only_current' = FALSE
        /\ UNCHANGED << clock, world, backup_dirs, backup_files, tmp,
                        pushed_world, k_vars, race, old_rev >>

\* What is left when make_archive failed: the scratch file, nothing uploaded
ArchiveFailed(b) ==
    [ bucket |-> b, raised |-> TRUE, uploaded |-> FALSE,
      latest_s3_key |-> None, new_s3_key |-> None ]

\* push_current_backup(): the archive is named after now(), written `delay`
\* clock steps later, and pushed as an explicit archive; the scratch file is
\* removed when the push returns. Without a world directory make_archive
\* either writes an archive of nothing, which is pushed like any other, or
\* raises after it has created the file, depending on the Python 2.7 build.
PushCurrent(delay) ==
    /\ ops < MaxOps
    /\ clock + delay <= MaxTick
    /\ \E now \in { Clock(clock) }, mtime \in { Clock(clock + delay) } :
       \E tmp_name \in
           { Basename(s3_backup_key(ServerName, WorldName, now)) } :
       \E archive_raises \in IF world.exists THEN { FALSE }
                             ELSE { FALSE, TRUE } :
       \E r \in { IF archive_raises THEN ArchiveFailed(bucket)
                  ELSE PushFrom(bucket, TRUE, mtime, make_archive(world)) } :
        /\ ops' = ops + 1
        /\ clock' = clock + delay
        /\ bucket' = r.bucket
        /\ tmp' = IF r.raised THEN tmp \cup { tmp_name }
                  ELSE tmp \ { tmp_name }
        /\ last' = [ op |-> "push_current", zipfile |-> TRUE,
                     raised |-> r.raised, had_world |-> world.exists,
                     walked |-> { },
                     latest_path |-> File(<< "/", "t", "m", "p" >>, tmp_name),
                     latest_stamp |-> mtime, now |-> now,
                     latest_s3_key |-> r.latest_s3_key,
                     new_s3_key |-> r.new_s3_key, uploaded |-> r.uploaded ]
        /\ Uploaded(r, mtime)
        /\ pushed_world' = IF r.uploaded THEN world ELSE pushed_world
        /\ only_current' = (only_current /\ ~ r.raised)
        /\ UNCHANGED << world, backup_dirs, backup_files, k_vars, race, old_rev >>

\* fetch_most_recent_backup(): the most recent backup is downloaded to /tmp,
\* extracted into the server directory and removed from /tmp; a file that is
\* no zip archive is reported and nothing is extracted.
\* An exception of extractall other
\* than BadZipfile leaves the call before os.remove.
Fetch ==
    /\ ops < MaxOps
    /\ \E key \in { get_most_recent_backup_key(bucket) } :
       \E extract_raises \in
           { key # None /\ bucket[key].body.zip /\ bucket[key].body.encrypted } :
        /\ ops' = ops + 1
        /\ world' = IF key # None /\ bucket[key].body.zip /\ ~ extract_raises
                    THEN extractall(world, bucket[key].body)
                    ELSE world
        /\ tmp' = IF key = None THEN tmp
                  ELSE IF extract_raises THEN tmp \cup { Basename(key) }
                  ELSE tmp \ { Basename(key) }
        /\ last' = [ NoCall EXCEPT !.op = "fetch", !.latest_s3_key = key,
                                   !.had_world = world.exists,
                                   !.raised = extract_raises ]
        /\ UNCHANGED << bucket, clock, backup_dirs, backup_files, up_keys,
                        up_last, up_increasing, only_current, pushed_world,
                        k_vars, race, old_rev >>

-----
(* What happens around the Prospector *)

\* Time passes.
Tick ==
    /\ clock < MaxTick
    /\ clock' = clock + 1
    /\ UNCHANGED << bucket, world, backup_dirs, backup_files, tmp, last, ops,
                    up_keys, up_last, up_increasing, only_current,
                    pushed_world, k_vars, race, old_rev >>

\* The server rewrites its world.
WriteWorld(tree) ==
    /\ world # WorldOf(tree)
    /\ world' = WorldOf(tree)
    /\ UNCHANGED << bucket, clock, backup_dirs, backup_files, tmp, last, ops,
                    up_keys, up_last, up_increasing, only_current,
                    pushed_world, k_vars, race, old_rev >>

\* The world directory is removed.
DeleteWorld ==
    /\ world.exists
    /\ world' = NoWorld
    /\ UNCHANGED << bucket, clock, backup_dirs, backup_files, tmp, last, ops,
                    up_keys, up_last, up_increasing, only_current,
                    pushed_world, k_vars, race, old_rev >>

\* A directory appears below local_backup_path.
MakeBackupDir(d) ==
    /\ d \notin backup_dirs
    /\ Len(d) > 1 => SubSeq(d, 1, Len(d) - 1) \in backup_dirs
    /\ backup_dirs' = backup_dirs \cup { d }
    /\ UNCHANGED << bucket, clock, world, backup_files, tmp, last, ops,
                    up_keys, up_last, up_increasing, only_current,
                    pushed_world, k_vars, race, old_rev >>

\* A backup mod, or anyone, writes a file into the backup directory.
WriteBackupFile(f) ==
    /\ Cardinality(backup_files) < MaxLocal
    /\ f.dir = BackupRoot \/ f.dir \in backup_dirs
    /\ f \notin backup_files
    /\ backup_files' = backup_files \cup { f }
    /\ UNCHANGED << bucket, clock, world, backup_dirs, tmp, last, ops,
                    up_keys, up_last, up_increasing, only_current,
                    pushed_world, k_vars, race, old_rev >>

\* Uploading and retagging: archives handed over by a caller and backups
\* found at the top of the local backup directory.
Next ==
    \/ \E m \in 0..MaxMtime : PushExplicit(m, NotAZip)
    \/ PushDiscovered
    \/ \E f \in TopFiles : WriteBackupFile(f)

Spec == Init /\ [][Next]_vars

\* The scan of the local backup directory, over its directories and names
NextScan ==
    \/ PushDiscovered
    \/ \E d \in DirUniverse : MakeBackupDir(d)
    \/ \E f \in LocalFiles : WriteBackupFile(f)

SpecScan == Init /\ [][NextScan]_vars

\* Archiving the world and restoring it
NextWorld ==
    \/ \E delay \in 0..MaxDelay : PushCurrent(delay)
    \/ \E body \in ExplicitBodies : PushExplicit(MaxMtime, body)
    \/ Fetch
    \/ Tick
    \/ \E tree \in WorldTrees : WriteWorld(tree)
    \/ DeleteWorld

\* The bucket already holds objects that are not backups of this world
InitWorld == Init /\ DOMAIN bucket = StrayKeys
SpecWorld == InitWorld /\ [][NextWorld]_vars

----------------------------------------------------------------------------
(* The key functions on their own: any server, world and pair of instants *)

InitKey == KeyInputs /\ ProgramIdle /\ RaceIdle /\ OldIdle

NextKey ==
    \/ BuildKeys /\ UNCHANGED << p_vars, race, old_rev >>
    \/ ParseKey /\ UNCHANGED << p_vars, race, old_rev >>

SpecKey == InitKey /\ [][NextKey]_vars

----------------------------------------------------------------------------
(* A bucket shared with keys that start with the namespace prefix *)

\* A backup of another world of the same server, whose name extends the
\* configured world's: s/backups/w_2-<timestamp>.zip
LongerWorldKey == s3_backup_key(ServerName, WorldName \o << "_", "2" >>, Clock(0))

\* A key with more characters after the suffix: a canonical key, then .bak
CopyKey ==
    s3_backup_key(ServerName, WorldName, Clock(2 * MaxMtime + MaxTick + 2))
        \o << ".", "b", "a", "k" >>

PrefixKeys == { LongerWorldKey, CopyKey }

\* The bucket holds one of these objects, untagged; what it holds plays no
\* part, it is taken to be no archive of the configured world.
InitShared ==
    /\ \E k \in PrefixKeys :
           bucket = [ o \in { k } |-> [ body |-> NotAZip, tags |-> NoTags ] ]
    /\ clock = 0
    /\ world = WorldOf(FirstTree)
    /\ backup_dirs = { }
    /\ backup_files = { }
    /\ tmp = { }
    /\ last = NoCall
    /\ ops = 0
    /\ up_keys = { }
    /\ up_last = NoStamp
    /\ up_increasing = TRUE
    /\ only_current = TRUE
    /\ pushed_world = NoWorld
    /\ KeyIdle
    /\ RaceIdle
    /\ OldIdle

SpecShared == InitShared /\ [][NextWorld]_vars

----------------------------------------------------------------------------
(* Two runs of push_most_recent_backup at once, under SpecRace *)

\* The archive a run uploads: the caller's, or the backup the scan found
RunBody(zipfile) == IF zipfile THEN NotAZip ELSE ModBackup

\* The key a run uploads to (line 147)
RunKey(run) == s3_backup_key(ServerName, WorldName, run.stamp)

\* A backup pushed before the two runs start
PriorKey == s3_backup_key(ServerName, WorldName, Clock(2))

\* The two runs are given their archives; the bucket is empty or holds one
\* backup, tagged new.
InitRace ==
    /\ \E prior \in { { }, { PriorKey } } :
           bucket = [ k \in prior |->
                        [ body |-> ModBackup, tags |-> BackupTag("new") ] ]
    /\ \E z \in [ Procs -> BOOLEAN ], m \in [ Procs -> 0..MaxMtime ] :
           race = [ b0 |-> bucket, overlapped |-> FALSE,
                    proc |-> [ p \in Procs |->
                                 [ pc |-> "start", zipfile |-> z[p],
                                   stamp |-> Clock(2 * m[p]),
                                   latest_s3_key |-> None ] ] ]
    /\ clock = 0
    /\ world = NoWorld
    /\ backup_dirs = { }
    /\ backup_files = { }
    /\ tmp = { }
    /\ last = NoCall
    /\ ops = 0
    /\ up_keys = { }
    /\ up_last = NoStamp
    /\ up_increasing = TRUE
    /\ only_current = TRUE
    /\ pushed_world = NoWorld
    /\ KeyIdle
    /\ OldIdle

\* The other run is between its lookup and its last call of the client
Underway(p) ==
    \E q \in Procs \ { p } : race.proc[q].pc \notin { "start", "done" }

\* One step of run p: its place moves to pc, its lookup's result is kept
RaceStep(p, pc, latest_s3_key) ==
    race' = [ race EXCEPT !.overlapped = @ \/ Underway(p),
                          !.proc[p].pc = pc,
                          !.proc[p].latest_s3_key = latest_s3_key ]

\* Lines 139-146: the lookup, and whether to upload
RaceLookup(p) ==
    /\ race.proc[p].pc = "start"
    /\ \E key \in { get_most_recent_backup_key(bucket) } :
       \E latest_s3_stamp \in
           { IF key # None THEN S3KeyStamp(key) ELSE NoStamp } :
          RaceStep(p,
                   IF ShouldUpload(race.proc[p].zipfile, latest_s3_stamp,
                                   race.proc[p].stamp)
                   THEN "upload" ELSE "done",
                   key)
    /\ UNCHANGED << p_vars, k_vars, old_rev >>

\* Line 152: client.upload_file
RaceUpload(p) ==
    /\ race.proc[p].pc = "upload"
    /\ bucket' = upload_file(bucket, RunKey(race.proc[p]),
                             RunBody(race.proc[p].zipfile))
    /\ RaceStep(p, "tag", race.proc[p].latest_s3_key)
    /\ UNCHANGED << clock, world, backup_dirs, backup_files, tmp, last, ops,
                    up_keys, up_last, up_increasing, only_current,
                    pushed_world, k_vars, old_rev >>

\* Line 153: the upload is tagged new
RaceTagNew(p) ==
    /\ race.proc[p].pc = "tag"
    /\ bucket' = tag_s3_object(bucket, RunKey(race.proc[p]), "new")
    /\ RaceStep(p,
                IF race.proc[p].latest_s3_key # None THEN "retag" ELSE "done",
                race.proc[p].latest_s3_key)
    /\ UNCHANGED << clock, world, backup_dirs, backup_files, tmp, last, ops,
                    up_keys, up_last, up_increasing, only_current,
                    pushed_world, k_vars, old_rev >>

\* A last step that leaves the tags alone, against which the agreement of
\* the steps with the serial runs is tested
RaceRetagSkipped(p) ==
    /\ race.proc[p].pc = "retag"
    /\ RaceStep(p, "done", race.proc[p].latest_s3_key)
    /\ UNCHANGED << p_vars, k_vars, old_rev >>

\* Lines 155-158: the key the lookup returned is tagged old
RaceRetag(p) ==
    /\ race.proc[p].pc = "retag"
    /\ bucket' = tag_s3_object(bucket, race.proc[p].latest_s3_key, "old")
    /\ RaceStep(p, "done", race.proc[p].latest_s3_key)
    /\ UNCHANGED << clock, world, backup_dirs, backup_files, tmp, last, ops,
                    up_keys, up_last, up_increasing, only_current,
                    pushed_world, k_vars, old_rev >>

NextRace ==
    \E p \in Procs :
        \/ RaceLookup(p)
        \/ RaceUpload(p)
        \/ RaceTagNew(p)
        \/ RaceRetag(p)

SpecRace == InitRace /\ [][NextRace]_vars

----------------------------------------------------------------------------
(* The revision in src/prospector.py, under SpecOld *)

\* [\d-]: a digit or a dash
IsDigitOrDash(c) == IsDigit(c) \/ c = "-"

\* AROMA_BACKUP_RE = '\w+-\w+-([\d-]+).zip' matched at the start of f: the
\* ways to match, as << p, q, r >> with the dashes at p and q and the group
\* from q + 1 to r.
OldAromaReMatches(f) ==
    { m \in (1..Len(f)) \X (1..Len(f)) \X (1..Len(f)) :
        /\ 1 < m[1] /\ m[1] + 1 < m[2] /\ m[2] < m[3]
        /\ WordsAt(f, 1, m[1] - 1)
        /\ f[m[1]] = "-"
        /\ WordsAt(f, m[1] + 1, m[2] - m[1] - 1)
        /\ f[m[2]] = "-"
        /\ \A i \in (m[2] + 1)..m[3] : IsDigitOrDash(f[i])
        /\ m[3] + 4 <= Len(f)
        /\ LitAt(f, m[3] + 2, << "z", "i", "p" >>) }

\* result.group(1) of the match the greedy quantifiers settle on, the
\* longest first run, then the longest second, then the longest group;
\* None without a match
OldAromaReMatch(f) ==
    IF OldAromaReMatches(f) = { } THEN None
    ELSE LET m == CHOOSE a \in OldAromaReMatches(f) :
                      \A b \in OldAromaReMatches(f) :
                          \/ b[1] < a[1]
                          \/ b[1] = a[1] /\ b[2] < a[2]
                          \/ b[1] = a[1] /\ b[2] = a[2] /\ b[3] <= a[3]
         IN SubSeq(f, m[2] + 1, m[3])

\* The group has the shape %Y-%m-%d--%H-%M writes
IsAromaDate(g) ==
    /\ Len(g) = 17
    /\ DigitsAt(g, 1, 4) /\ g[5] = "-" /\ DigitsAt(g, 6, 2) /\ g[8] = "-"
    /\ DigitsAt(g, 9, 2) /\ g[11] = "-" /\ g[12] = "-"
    /\ DigitsAt(g, 13, 2) /\ g[15] = "-" /\ DigitsAt(g, 16, 2)

\* datetime.strptime(result.group(1), AROMA_BACKUP_DATE_FMT) for a name that
\* matched, NotABackup for one that did not. (strptime also reads fields
\* written without their leading zero; no name of the model has one.)
OldBackupTime(f) ==
    IF OldAromaReMatch(f) = None THEN NotABackup
    ELSE IF IsAromaDate(OldAromaReMatch(f))
         THEN StrptimeAroma(OldAromaReMatch(f))
         ELSE ValueError

\* The names that appear under the backup directory
OldNames == { AromaName(Clock(0)), AromaName(Clock(1)), NotesName }

\* Lines 82-94 of src/prospector.py: the latest timestamp among the matching
\* files, NoStamp (None) without one, ValueError when a strptime raised
OldScan(files) ==
    LET times == { OldBackupTime(f) : f \in files } \ { NotABackup }
    IN IF ValueError \in times THEN ValueError
       ELSE IF times = { } THEN NoStamp
       ELSE CHOOSE t \in times : \A u \in times : ~ DtLess(t, u)

\* put_object_tagging(Bucket=name, Key=key, ...): S3 refuses a key the
\* bucket does not hold
OldCanTag(store, name, key) == key \in DOMAIN store[name]

\* Lines 106-139: upload to the configured bucket, then the two
\* put_object_tagging calls, both on the new key in JoshBucket; the second
\* is not reached when the first raises.
OldUploadAndTag(store, s3_bucket, new_s3_key) ==
    LET up == [ store EXCEPT ![s3_bucket] =
                    upload_file(@, new_s3_key, ModBackup) ]
    IN IF OldCanTag(up, JoshBucket, new_s3_key)
       THEN [ up EXCEPT ![JoshBucket] =
                  tag_s3_object(tag_s3_object(@, new_s3_key, "current"),
                                new_s3_key, "old") ]
       ELSE up

\* push_most_recent_backup() of src/prospector.py. Without a local backup
\* latest_stamp is None: the comparison at line 106, or upload_file with no
\* path, raises.
OldPush ==
    /\ old_rev.ops < MaxOps
    /\ \E latest_stamp \in { OldScan(old_rev.files) } :
       \E latest_s3 \in
           { get_most_recent_backup_key(old_rev.store[old_rev.s3_bucket]) } :
       \E latest_s3_stamp \in
           { IF latest_s3 # None THEN S3KeyStamp(latest_s3) ELSE NoStamp } :
       \E uploads \in
           { /\ latest_stamp \notin { ValueError, NoStamp }
             /\ \/ latest_s3_stamp = NoStamp
                \/ DtLess(latest_s3_stamp, latest_stamp) } :
       \E new_s3_key \in
           { IF uploads
             THEN s3_backup_key(ServerName, WorldName, latest_stamp)
             ELSE None } :
          old_rev' =
            [ old_rev EXCEPT
                !.ops = @ + 1,
                !.store = IF uploads
                          THEN OldUploadAndTag(@, old_rev.s3_bucket, new_s3_key)
                          ELSE @,
                !.last =
                    [ raised |->
                          \/ latest_stamp \in { ValueError, NoStamp }
                          \/ uploads /\ old_rev.s3_bucket # JoshBucket,
                      uploaded |-> uploads,
                      latest_s3 |-> IF latest_stamp = ValueError
                                    THEN None ELSE latest_s3,
                      new_s3_key |-> new_s3_key ] ]
    /\ UNCHANGED << p_vars, k_vars, race >>

\* A mod writes a file under the backup directory
OldWriteBackup(f) ==
    /\ f \notin old_rev.files
    /\ old_rev' = [ old_rev EXCEPT !.files = @ \cup { f } ]
    /\ UNCHANGED << p_vars, k_vars, race >>

\* The Prospector is configured with one of the account's buckets
InitOld ==
    /\ ProgramIdle
    /\ KeyIdle
    /\ RaceIdle
    /\ \E name \in BucketNames :
           old_rev = [ s3_bucket |-> name,
                       store |-> [ n \in BucketNames |-> << >> ],
                       files |-> { }, ops |-> 0, last |-> NoOldCall ]

NextOld ==
    \/ OldPush
    \/ \E f \in OldNames : OldWriteBackup(f)

SpecOld == InitOld /\ [][NextOld]_vars

----------------------------------------------------------------------------
(* What the bucket holds, told without the lookup's own sort and pattern *)

\* The whole seconds a backup of this model can be named after
KnownStamps ==
    { Seconds(Clock(n)) : n \in 0..(2 * MaxMtime + MaxTick + MaxDelay) }
        \cup { BackupTime(f.name) :
                 f \in { g \in LocalFiles \cup TopFiles :
                           BackupTime(g.name)
                               \notin { NotABackup, ValueError } } }

\* The timestamps of the backups of the configured world in bucket b
RemoteStamps(b) ==
    { t \in KnownStamps :
        s3_backup_key(ServerName, WorldName, t) \in DOMAIN b }

\* The key of the latest of them, None when there is none
MostRecentRemote(b) ==
    IF RemoteStamps(b) = { } THEN None
    ELSE s3_backup_key(ServerName, WorldName,
             CHOOSE t \in RemoteStamps(b) :
                 \A u \in RemoteStamps(b) : ~ DtLess(t, u))

\* The objects under the namespace prefix tagged backup=new
TaggedNew(b) ==
    { k \in DOMAIN b :
        /\ StartsWith(k, s3_backup_prefix(ServerName, WorldName))
        /\ << "backup", "new" >> \in b[k].tags }

\* A step that is a call of push_most_recent_backup
IsPush == ops' = ops + 1 /\ last'.op = "push"

\* A call of push_most_recent_backup that got as far as the remote lookup
ReachedLookup ==
    /\ IsPush
    /\ ~ last'.raised
    /\ last'.zipfile \/ last'.latest_path # NoPath

----------------------------------------------------------------------------
(* The upload and retag protocol, under Spec *)

\* C1 (the statement the code does not keep): starting from an empty bucket,
\* once at least one upload has happened, exactly one object under the
\* namespace prefix carries the tag backup=new after every call.
C1_ExactlyOneNew ==
    (DOMAIN bucket \cap StrayKeys = { } /\ up_keys # { })
        => Cardinality(TaggedNew(bucket)) = 1

C3_UploadIff ==
    [][ ReachedLookup
        => /\ last'.uploaded
                <=> \/ last'.zipfile
                    \/ \A t \in RemoteStamps(bucket) :
                           DtLess(t, last'.latest_stamp)
           /\ last'.uploaded
                => /\ last'.new_s3_key
                        = s3_backup_key(ServerName, WorldName,
                                        last'.latest_stamp)
                   /\ last'.new_s3_key \in DOMAIN bucket'
           /\ ~ last'.uploaded => last'.new_s3_key = None ]_vars

\* A discovered candidate with the timestamp of the most recent remote backup
\* was not uploaded
C3_Witness ==
    /\ last.op = "push"
    /\ ~ last.zipfile
    /\ last.latest_path # NoPath
    /\ ~ last.uploaded
    /\ last.latest_s3_key
           = s3_backup_key(ServerName, WorldName, last.latest_stamp)

\* C4: a call without an explicit archive whose newest local backup is not
\* strictly newer than the most recent remote backup leaves every object and
\* every tag of the bucket as it was; and a discovered push that follows a
\* discovered push of the same local backup uploads nothing.
C4_NotNewerIsNoOp ==
    [][ /\ (ReachedLookup /\ ~ last'.zipfile
              /\ \E t \in RemoteStamps(bucket) :
                     ~ DtLess(t, last'.latest_stamp))
            => (bucket' = bucket /\ up_keys' = up_keys)
        /\ (ReachedLookup /\ ~ last'.zipfile
              /\ last.op = "push" /\ ~ last.zipfile /\ ~ last.raised
              /\ last.latest_path # NoPath
              /\ last'.latest_stamp = last.latest_stamp)
            => (~ last'.uploaded /\ bucket' = bucket) ]_vars

\* A discovered candidate older than the most recent remote backup was found
\* and nothing was uploaded
C4_Witness ==
    /\ last.op = "push"
    /\ ~ last.zipfile
    /\ last.latest_path # NoPath
    /\ ~ last.uploaded
    /\ last.latest_s3_key # None
    /\ DtLess(last.latest_stamp, S3KeyStamp(last.latest_s3_key))
    /\ Cardinality(up_keys) >= 2

\* C7: the lookup of push_most_recent_backup returns the canonical key of
\* the configured world with the greatest timestamp, whatever other keys the
\* bucket holds, and None when the bucket holds no such key.
C7_MostRecentKey ==
    [][ ReachedLookup => last'.latest_s3_key = MostRecentRemote(bucket) ]_vars

\* With a key under the prefix that is no backup and two backups in the
\* bucket, the lookup returned the later backup
C7_Witness ==
    /\ last.op = "push"
    /\ ~ last.zipfile
    /\ ~ last.uploaded
    /\ StrayKeys \subseteq DOMAIN bucket
    /\ Cardinality(RemoteStamps(bucket)) >= 2
    /\ last.latest_s3_key # None
    /\ last.latest_s3_key = MostRecentRemote(bucket)

----------------------------------------------------------------------------
(* The key functions, under SpecKey *)

\* C5 (the statement the code does not keep): for every server name, world
\* name and instant, the timestamp parsed back out of the key built by
\* s3_backup_key is the original instant.
C5_RoundTrip ==
    k_pc = "parsed" => k_stamp = k_t1

\* C6 (as first stated): for any two instants t1 < t2 the key of t1 is
\* strictly less than the key of t2 under plain string comparison.
C6_StrictlyMonotonic ==
    (k_pc # "init" /\ DtLess(k_t1, k_t2)) => StrLess(k_key1, k_key2)

\* C6: for a fixed server and world and any two instants t1 < t2, the key of
\* t1 is never greater than the key of t2 under plain string comparison, and
\* it is strictly less when t1 and t2 lie in different whole seconds.
C6_Monotonic ==
    (k_pc # "init" /\ DtLess(k_t1, k_t2))
        => /\ ~ StrLess(k_key2, k_key1)
           /\ Seconds(k_t1) # Seconds(k_t2) => StrLess(k_key1, k_key2)

\* Keys were built for two instants that differ in every field of the date
C6_Witness ==
    /\ k_pc = "built"
    /\ DtLess(k_t1, k_t2)
    /\ k_t1.year < k_t2.year
    /\ k_t1.month > k_t2.month
    /\ k_t1.day > k_t2.day
    /\ StrLess(k_key1, k_key2)

----------------------------------------------------------------------------
(* The local scan, under SpecScan *)

\* C8: when a directory named world_name lies directly under the local
\* backup root, the scan visits only the root and the directories at or
\* under that one, and the backup it selects lies in one of them, whatever
\* the other directories hold.
C8_OtherWorldsExcluded ==
    [][ (IsPush /\ ~ last'.zipfile /\ << WorldName >> \in backup_dirs)
        => /\ \A d \in last'.walked :
                  d = BackupRoot \/ IsUnder(d, << WorldName >>)
           /\ \A f \in backup_files :
                  (f.dir # BackupRoot /\ ~ IsUnder(f.dir, << WorldName >>))
                      => (f.dir \notin last'.walked /\ last'.latest_path # f)
       ]_vars

\* The scan selected a backup of the world's directory although another
\* world's directory holds a later one
C8_Witness ==
    /\ last.op = "push"
    /\ ~ last.zipfile
    /\ ~ last.raised
    /\ << WorldName >> \in backup_dirs
    /\ last.latest_path \in backup_files
    /\ last.latest_path.dir = << WorldName >>
    /\ \E f \in backup_files :
           /\ f.dir = << OtherWorld >>
           /\ DtLess(last.latest_stamp, BackupTime(f.name))

----------------------------------------------------------------------------
(* Archiving and restoring the world, under SpecWorld *)

\* C9: when every push so far was a push_current_backup and the world
\* directory has been deleted, fetch_most_recent_backup recreates the world
\* with exactly the files, paths and contents, it had at the last push.
C9_RestoresLastPush ==
    [][ (ops' = ops + 1 /\ last'.op = "fetch"
           /\ only_current /\ up_keys # { } /\ ~ world.exists)
        => world' = pushed_world ]_vars

\* After two pushes of different worlds at increasing instants the world was
\* deleted and a fetch brought back the world of the second push
C9_Witness ==
    /\ last.op = "fetch"
    /\ ~ last.had_world
    /\ only_current
    /\ up_increasing
    /\ Cardinality(up_keys) >= 2
    /\ world.exists
    /\ world = pushed_world
    /\ world = WorldOf(SecondTree)

\* C10 (the statement the code does not keep): push_current_backup stores
\* the archive under the canonical key of the instant at which it was
\* invoked, whatever the delay until the archive file is written.
C10_KeyOfInvocation ==
    (last.op = "push_current" /\ last.uploaded)
        => last.new_s3_key = s3_backup_key(ServerName, WorldName, last.now)

\* C11 (the statement the code does not keep): when the world directory does
\* not exist, push_current_backup ends with an error, with no archive file at
\* the scratch location and with nothing uploaded or retagged.
C11_MissingWorldFailsClean ==
    (last.op = "push_current" /\ ~ last.had_world)
        => /\ last.raised
           /\ last.latest_path.name \notin tmp
           /\ ~ last.uploaded

\* C12 (the statement the code does not keep): whenever
\* fetch_most_recent_backup has downloaded an object, the scratch file is
\* gone when the call ends, whatever opening and extracting it did, and an
\* object that is no zip archive does not make the call raise.
C12_ScratchRemoved ==
    (last.op = "fetch" /\ last.latest_s3_key # None)
        => /\ Basename(last.latest_s3_key) \notin tmp
           /\ ~ bucket[last.latest_s3_key].body.zip => ~ last.raised

\* C13 (the statement the code does not keep, under SpecScan): a file name
\* or key from which no timestamp can be parsed is skipped, so that no call
\* of push_most_recent_backup is aborted by an error of the scan or of the
\* lookup.
C13_ScanNeverAborts ==
    last.op = "push" => ~ last.raised

----------------------------------------------------------------------------
(* Two runs at once, under SpecRace *)

\* The bucket after run p and then run q, each from its first line to its
\* last with nothing in between
SerialOrder(p, q) ==
    PushFrom(PushFrom(race.b0, race.proc[p].zipfile, race.proc[p].stamp,
                      RunBody(race.proc[p].zipfile)).bucket,
             race.proc[q].zipfile, race.proc[q].stamp,
             RunBody(race.proc[q].zipfile)).bucket

BothDone == \A p \in Procs : race.proc[p].pc = "done"

\* C14: the two runs leave the bucket of one of the two serial orders
\* whenever their steps did not interleave; the bucket that belongs to
\* neither order, with two objects tagged backup=new, is reached by an
\* interleaving and by an interleaving only.
C14_SerialUnlessInterleaved ==
    (BothDone /\ ~ race.overlapped)
        => bucket \in { SerialOrder(1, 2), SerialOrder(2, 1) }

\* Both runs are done, their steps interleaved, the bucket is that of neither
\* serial order and two objects are tagged backup=new
C14_Witness ==
    /\ BothDone
    /\ race.overlapped
    /\ bucket \notin { SerialOrder(1, 2), SerialOrder(2, 1) }
    /\ Cardinality(TaggedNew(bucket)) = 2
    /\ Cardinality(TaggedNew(SerialOrder(1, 2))) = 1
    /\ Cardinality(TaggedNew(SerialOrder(2, 1))) = 1

----------------------------------------------------------------------------
(* Keys that start with the namespace prefix, under SpecShared *)

\* The canonical keys of the configured server and world
IsCanonicalKey(key) ==
    \E t \in KnownStamps : key = s3_backup_key(ServerName, WorldName, t)

\* C15 (the statement the code does not keep): the key that
\* get_most_recent_backup_key returns is always a canonical key of the
\* configured server and world, so that an object whose key merely starts
\* with the namespace prefix is never fetched and never retagged.
C15_OnlyCanonicalKeys ==
    /\ last.latest_s3_key # None => IsCanonicalKey(last.latest_s3_key)
    /\ \A k \in PrefixKeys \cap DOMAIN bucket : bucket[k].tags = NoTags

----------------------------------------------------------------------------
(* The choice of the local scan, under SpecScan *)

\* The positions of a walk order whose file is a backup with a timestamp
Backups(order) ==
    { i \in 1..Len(order) :
        BackupTime(order[i].name) \notin { NotABackup, ValueError } }

\* The first file of a walk order among those with the latest timestamp
FirstNewest(order) ==
    LET best == { i \in Backups(order) :
                    \A j \in Backups(order) :
                        ~ DtLess(BackupTime(order[i].name),
                                 BackupTime(order[j].name)) }
    IN IF best = { } THEN NoPath
       ELSE order[CHOOSE i \in best : \A j \in best : i <= j]

\* C16: a scan that is not aborted selects, in whatever order the files are
\* walked, the first file of that order among the matching files with the
\* latest timestamp, each timestamp parsed with the format of the pattern
\* that matched; and when no walked file matches, the call uploads and
\* retags nothing.
C16_NewestFirstFound ==
    [][ (IsPush /\ ~ last'.zipfile /\ ~ last'.raised)
        => \E orders \in { WalkOrders(backup_dirs, backup_files) } :
           \E chosen \in { { << Scan(order), FirstNewest(order) >> :
                               order \in orders } } :
           /\ \A c \in chosen : ~ c[1].raised => c[1].path = c[2]
           /\ \E c \in chosen : last'.latest_path = c[2]
           /\ last'.latest_path # NoPath
                  => last'.latest_stamp = BackupTime(last'.latest_path.name)
           /\ last'.latest_path = NoPath
                  => (bucket' = bucket /\ ~ last'.uploaded) ]_vars

\* The scan selected a backup named in the Aroma format while a backup of
\* the same timestamp named in the FTB Utilities format was walked too
C16_Witness ==
    /\ last.op = "push"
    /\ ~ last.zipfile
    /\ ~ last.raised
    /\ last.latest_path \in backup_files
    /\ AromaReMatch(last.latest_path.name) # None
    /\ \E f \in WalkedFiles(backup_dirs, backup_files) :
           /\ FtbReMatch(f.name) # None
           /\ BackupTime(f.name) = last.latest_stamp

----------------------------------------------------------------------------
(* The tags of the revision in src/prospector.py, under SpecOld *)

\* C17 (the statement the code does not keep): whenever
\* push_most_recent_backup of src/prospector.py has uploaded a backup, the
\* uploaded key is tagged backup=current and the key that was the most
\* recent before is tagged backup=old, both in the configured bucket.
C17_CurrentAndOld ==
    old_rev.last.uploaded
        => LET b == old_rev.store[old_rev.s3_bucket]
           IN /\ b[old_rev.last.new_s3_key].tags = BackupTag("current")
              /\ old_rev.last.latest_s3 # None
                     => b[old_rev.last.latest_s3].tags = BackupTag("old")

====
